---- MODULE Spec2Model ----
(***************************************************************************)
(* Model of the Kush tool chain of clang's driver                          *)
(* (clang/lib/Driver/ToolChains/Kush.cpp): the linker job built by         *)
(* kush::Linker::ConstructJob, the library search paths set up by the      *)
(* Kush constructor, the system include list of AddClangSystemIncludeArgs  *)
(* and the runtime library selection of GetRuntimeLibType.                 *)
(*                                                                         *)
(* A string the code builds by concatenation is a sequence of its pieces:  *)
(* "--sysroot=" + SysRoot is <<"--sysroot=">> \o SysRoot, and a path is    *)
(* the sequence of its components, so that path::append is \o.  A fixed    *)
(* argument such as "-znorelro" is the one-piece sequence <<"-znorelro">>. *)
(* An argument list (CmdArgs, CC1Args) is a sequence of such arguments.    *)
(***************************************************************************)
EXTENDS Naturals, Sequences, FiniteSets

VARIABLES
    Args,       \* the parsed driver options (llvm::opt::ArgList)
    D,          \* the Driver: SysRoot, ResourceDir, CCCIsCXX, LTOMode
    TC,         \* the Kush tool chain: FilePaths, PIEDefault, and StartFileDirs,
                \* the directories that hold the startup objects
    Inputs,     \* the InputInfoList of the link job
    Jobs,       \* the Compilation's commands (C.addCommand)
    CC1Args,    \* the cc1 arguments the tool chain's Add... functions append to
    Diags,      \* the driver's diagnostics (Driver::Diag)
    RtLib,      \* what GetRuntimeLibType returned ("unset" before the call)
    Called,     \* the cc1 functions of the tool chain the driver has called
    pc          \* where the driver is

vars == <<Args, D, TC, Inputs, Jobs, CC1Args, Diags, RtLib, Called, pc>>

(***************************************************************************)
(* Bounds of the model.                                                    *)
(***************************************************************************)
MaxInputs == 2
MaxLibPaths == 1
MaxUndefined == 1
MaxRtlibArgs == 2
MaxOptions == 2
MaxInitArrayArgs == 1

\* The boolean driver options the tool chain tests with Args.hasArg.
LinkOpts ==
    {"static", "shared", "pie", "rdynamic", "s", "nostdlib", "nostartfiles",
     "nodefaultlibs", "nolibc", "static_libstdcxx", "nostdlibxx"}

IncludeOpts == {"nostdinc", "nobuiltininc", "nostdlibinc", "nostdincxx"}

\* Names to draw the inputs from.
InputNames == <<"a.o", "b.o", "c.o">>
UserLibDirs == <<<<"/user/lib1">>, <<"/user/lib2">>>>
UndefinedSyms == <<"sym1", "sym2">>
SysRoots == {<<>>, <<"/target">>}
ResourceDirs == {<<>>, <<"/clang/lib/clang/11">>}
RtlibNames == {"compiler-rt", "libgcc", "platform"}
OutputFile == "a.out"

Prefix(s, n) == [i \in 1..n |-> s[i]]

SeqsUpTo(S, n) == UNION {[1..k -> S] : k \in 0..n}

(***************************************************************************)
(* Helpers on argument lists.                                              *)
(***************************************************************************)
Lit(s) == <<s>>

hasArg(o) == o \in Args.opts

hasArg2(o1, o2) == hasArg(o1) \/ hasArg(o2)

(***************************************************************************)
(* Kush::Kush: the default library search paths, System tier then Local   *)
(* tier, both only under a sysroot.                                        *)
(***************************************************************************)

\* A constructor that registers the Local tier first.
KushFilePaths_LocalFirst(SysRoot) ==
    (IF SysRoot # <<>> THEN <<SysRoot \o <<"Local", "Libraries">>>> ELSE <<>>)
    \o (IF SysRoot # <<>> THEN <<SysRoot \o <<"System", "Libraries">>>> ELSE <<>>)

KushFilePaths(SysRoot) ==
    (IF SysRoot # <<>> THEN <<SysRoot \o <<"System", "Libraries">>>> ELSE <<>>)
    \o (IF SysRoot # <<>> THEN <<SysRoot \o <<"Local", "Libraries">>>> ELSE <<>>)

(***************************************************************************)
(* Collaborators of the tool chain that live in the driver's common code.  *)
(***************************************************************************)
\* ToolChain::isPIEDefault
isPIEDefault == TC.PIEDefault

\* ToolChain::GetFilePath: the file in the first search directory that holds
\* it, the name itself when none does.
GetFilePath(Name) ==
    LET hits == {i \in 1..Len(TC.FilePaths) : TC.FilePaths[i] \in TC.StartFileDirs}
    IN IF hits = {} THEN <<Name>>
       ELSE TC.FilePaths[CHOOSE i \in hits : \A j \in hits : i <= j] \o <<Name>>

\* ToolChain::GetLinkerPath
GetLinkerPath == <<"ld">>

\* ToolChain::AddFilePathLibArgs: -L<dir> for every directory of getFilePaths().
AddFilePathLibArgs == [i \in 1..Len(TC.FilePaths) |-> <<"-L">> \o TC.FilePaths[i]]

\* ToolChain::ShouldLinkCXXStdlib
ShouldLinkCXXStdlib ==
    D.CCCIsCXX /\ ~hasArg("nostdlib") /\ ~hasArg("nodefaultlibs") /\ ~hasArg("nostdlibxx")

\* ToolChain::GetCXXStdlibType: the -stdlib= selection.
GetCXXStdlibType == Args.stdlib

\* Driver::isUsingLTO
isUsingLTO == D.LTOMode # "none"

\* tools::addLTOOptions: the LTO configuration for the mode, anchored on Input.
addLTOOptions(Input, IsThinLTO) ==
    << <<"-plugin-opt=", IF IsThinLTO THEN "thinlto" ELSE "lto", Input>> >>

\* tools::AddLinkerInputs: every input, in the given order.
AddLinkerInputs == [i \in 1..Len(Inputs) |-> <<Inputs[i]>>]

\* tools::AddRunTimeLibs for the runtime library kind the tool chain selects.
AddRunTimeLibs(kind) ==
    IF kind = "RLT_CompilerRT" THEN << <<"libclang_rt.builtins.a">> >> ELSE << <<"-lgcc">> >>

\* Args.AddAllArgs(CmdArgs, OPT_L) and (CmdArgs, OPT_u): rendered in the given
\* order.  -L is rendered joined, one argument "-L<dir>".
AddAllArgsL == [i \in 1..Len(Args.L) |-> <<"-L">> \o Args.L[i]]

\* -u is rendered separate: two arguments per symbol, "-u" and the symbol.
AddAllArgsU ==
    [i \in 1..(2 * Len(Args.u)) |->
        IF i % 2 = 1 THEN Lit("-u") ELSE Lit(Args.u[i \div 2])]

(***************************************************************************)
(* Kush::GetRuntimeLibType: always compiler-rt; a diagnostic when the last *)
(* -rtlib= names something else.                                           *)
(***************************************************************************)

\* A build that rejects every -rtlib=, the supported name included.
GetRuntimeLibTypeDiags_AnyName ==
    IF Args.rtlib # <<>>
    THEN <<[id |-> "err_drv_invalid_rtlib_name",
            arg |-> <<"-rtlib=", Args.rtlib[Len(Args.rtlib)]>>]>>
    ELSE <<>>

GetRuntimeLibTypeDiags ==
    IF Args.rtlib # <<>> /\ Args.rtlib[Len(Args.rtlib)] # "compiler-rt"
    THEN <<[id |-> "err_drv_invalid_rtlib_name",
            arg |-> <<"-rtlib=", Args.rtlib[Len(Args.rtlib)]>>]>>
    ELSE <<>>

GetRuntimeLibTypeResult == "RLT_CompilerRT"

(***************************************************************************)
(* llvm_unreachable aborts a build with assertions.  Without them it is    *)
(* undefined behaviour: the build crashes, or it goes on in one of two     *)
(* ways, leaving the switch with nothing done or running the libc++ case,  *)
(* the only one the compiler kept.                                         *)
(***************************************************************************)
UnreachableOutcomes == {"nothing", "libc++"}

(***************************************************************************)
(* Kush::AddCXXStdlibLibArgs.  Unsupported is TRUE where the switch hits   *)
(* llvm_unreachable; Unreachable is what the build does there.             *)
(***************************************************************************)
CXXStdlibUnsupported == GetCXXStdlibType # "libc++"

AddCXXStdlibLibArgs(Unreachable) ==
    IF GetCXXStdlibType = "libc++" \/ Unreachable = "libc++"
    THEN <<Lit("-lc++abi"), Lit("-lc++")>>
         \o (IF ~hasArg("static") THEN <<Lit("-lunwind")>> ELSE <<>>)
    ELSE <<>>

(***************************************************************************)
(* kush::Linker::ConstructJob, stage by stage in the order of the code.    *)
(***************************************************************************)

\* A build that forgets that a shared object is never a PIE.
IsPIE_IgnoresShared == hasArg("pie") \/ isPIEDefault

IsPIE == ~hasArg("shared") /\ (hasArg("pie") \/ isPIEDefault)

RelroArgs == <<Lit("-znorelro")>>

SysRootArgs == IF D.SysRoot # <<>> THEN << <<"--sysroot=">> \o D.SysRoot >> ELSE <<>>

PIEArgs == IF IsPIE THEN <<Lit("-pie")>> ELSE <<>>

StripArgs == IF hasArg("s") THEN <<Lit("-s")>> ELSE <<>>


\* A build that tests -rdynamic before -static.
LinkModeArgs_RdynamicFirst ==
    (IF hasArg("rdynamic") THEN <<Lit("-export-dynamic")>> ELSE <<>>)
    \o (IF hasArg("static")
        THEN <<Lit("-Bstatic")>>
        ELSE (IF hasArg("shared")
              THEN <<Lit("-Bshareable")>>
              ELSE <<Lit("-dynamic-linker"), Lit("/sbin/ldyldo")>>)
             \o <<Lit("--enable-new-dtags")>>)

LinkModeArgs ==
    IF hasArg("static")
    THEN <<Lit("-Bstatic")>>
    ELSE (IF hasArg("rdynamic") THEN <<Lit("-export-dynamic")>> ELSE <<>>)
         \o (IF hasArg("shared")
             THEN <<Lit("-Bshareable")>>
             ELSE <<Lit("-dynamic-linker"), Lit("/sbin/ldyldo")>>)
         \o <<Lit("--enable-new-dtags")>>

OutputArgs == <<Lit("-o"), Lit(OutputFile)>>


\* A build that picks the PIE entry object for shared objects only.
StartFileArgs_SharedOnly ==
    IF ~hasArg2("nostdlib", "nostartfiles")
    THEN (IF hasArg("static") THEN <<GetFilePath("crt0T.o")>>
          ELSE IF hasArg("shared") THEN <<GetFilePath("crt0S.o")>>
          ELSE <<GetFilePath("crt0.o")>>)
         \o (IF hasArg("static") THEN <<GetFilePath("crti.o")>> ELSE <<>>)
    ELSE <<>>

StartFileArgs ==
    IF ~hasArg2("nostdlib", "nostartfiles")
    THEN (IF hasArg("static") THEN <<GetFilePath("crt0T.o")>>
          ELSE IF hasArg("shared") \/ IsPIE THEN <<GetFilePath("crt0S.o")>>
          ELSE <<GetFilePath("crt0.o")>>)
         \o (IF hasArg("static") THEN <<GetFilePath("crti.o")>> ELSE <<>>)
    ELSE <<>>

SearchPathArgs == AddAllArgsL \o AddAllArgsU \o AddFilePathLibArgs

\* FirstInput is what Inputs[0] reads.
LTOArgs(FirstInput) ==
    IF isUsingLTO THEN addLTOOptions(FirstInput, D.LTOMode = "thin") ELSE <<>>

OnlyLibstdcxxStatic == hasArg("static_libstdcxx") /\ ~hasArg("static")


\* A build that never switches back to dynamic linking.
CXXStdlibGroupArgs_NoRestore(Unreachable) ==
    IF D.CCCIsCXX /\ ShouldLinkCXXStdlib
    THEN <<Lit("--push-state"), Lit("--as-needed")>>
         \o (IF OnlyLibstdcxxStatic THEN <<Lit("-Bstatic")>> ELSE <<>>)
         \o AddCXXStdlibLibArgs(Unreachable)
         \o <<Lit("-lopenlibm"), Lit("--pop-state")>>
    ELSE <<>>

CXXStdlibGroupArgs(Unreachable) ==
    IF D.CCCIsCXX /\ ShouldLinkCXXStdlib
    THEN <<Lit("--push-state"), Lit("--as-needed")>>
         \o (IF OnlyLibstdcxxStatic THEN <<Lit("-Bstatic")>> ELSE <<>>)
         \o AddCXXStdlibLibArgs(Unreachable)
         \o (IF OnlyLibstdcxxStatic THEN <<Lit("-Bdynamic")>> ELSE <<>>)
         \o <<Lit("-lopenlibm"), Lit("--pop-state")>>
    ELSE <<>>

LibcArgs == IF ~hasArg("nolibc") THEN <<Lit("-lc")>> ELSE <<>>


\* A build whose default-library test forgets -nostdlib.
DefaultLibs_IgnoresNostdlib == ~hasArg("nodefaultlibs")

DefaultLibs == ~hasArg2("nostdlib", "nodefaultlibs")

DefaultLibArgs(Unreachable) ==
    IF DefaultLibs
    THEN (IF hasArg("static") THEN <<Lit("-Bstatic")>> ELSE <<>>)
         \o CXXStdlibGroupArgs(Unreachable)
         \o AddRunTimeLibs(GetRuntimeLibTypeResult)
         \o LibcArgs
    ELSE <<>>


\* A build that emits the strip flag after the linking-mode group.
CmdArgs_StripAfterMode(FirstInput, Unreachable) ==
    RelroArgs \o SysRootArgs \o PIEArgs \o LinkModeArgs \o StripArgs \o OutputArgs
    \o StartFileArgs \o SearchPathArgs \o LTOArgs(FirstInput) \o AddLinkerInputs
    \o DefaultLibArgs(Unreachable)

CmdArgs(FirstInput, Unreachable) ==
    RelroArgs \o SysRootArgs \o PIEArgs \o StripArgs \o LinkModeArgs \o OutputArgs
    \o StartFileArgs \o SearchPathArgs \o LTOArgs(FirstInput) \o AddLinkerInputs
    \o DefaultLibArgs(Unreachable)

\* assert(!Inputs.empty()) guards Inputs[0].
LTOWithoutInput == isUsingLTO /\ Inputs = <<>>

\* AddCXXStdlibLibArgs reaches llvm_unreachable.
ReachesUnsupportedStdlib ==
    DefaultLibs /\ D.CCCIsCXX /\ ShouldLinkCXXStdlib /\ CXXStdlibUnsupported

\* What Inputs[0] reads past the end of an empty list in a build without
\* assertions.
GarbageInput == "<out of bounds>"

Command(FirstInput, Unreachable) ==
    [Exec |-> GetLinkerPath, Arguments |-> CmdArgs(FirstInput, Unreachable),
     Inputs |-> Inputs, Output |-> OutputFile]

(***************************************************************************)
(* The link job.  Where the assert of line 134 fails or llvm_unreachable   *)
(* is reached, a build with assertions aborts.  A build without them reads *)
(* Inputs[0] past the end of the empty list and meets llvm_unreachable as  *)
(* undefined behaviour: it crashes, or it builds the job all the same.     *)
(***************************************************************************)
ConstructJob ==
    /\ pc = "ready"
    /\ \/ /\ LTOWithoutInput \/ ReachesUnsupportedStdlib
          /\ pc' = "aborted"
          /\ UNCHANGED <<Jobs, Diags>>
       \/ \E Unreachable \in
                (IF ReachesUnsupportedStdlib THEN UnreachableOutcomes ELSE {"nothing"}) :
             /\ pc' = "done"
             /\ Jobs' = Append(Jobs,
                   Command(IF Inputs = <<>> THEN GarbageInput ELSE Inputs[1],
                           Unreachable))
             /\ Diags' = Diags \o (IF DefaultLibs THEN GetRuntimeLibTypeDiags ELSE <<>>)
    /\ UNCHANGED <<Args, D, TC, Inputs, CC1Args, RtLib, Called>>

InstallChoices(paths) == {{}} \cup {{paths[i]} : i \in 1..Len(paths)}

\* How many inputs, -L paths and -u symbols a job has.
JobShapes == [inputs : 0..MaxInputs, L : 0..MaxLibPaths, u : 0..MaxUndefined]

FullShape == [inputs |-> MaxInputs, L |-> MaxLibPaths, u |-> MaxUndefined]

\* Every set of options is drawn with the full shape, and every set of at
\* most MaxOptions options with every shape.  -stdlib= is read for C++ links
\* only.  The startup objects are installed in no search directory or in one.
Init ==
    /\ \E opts \in SUBSET LinkOpts, shape \in JobShapes :
          /\ Cardinality(opts) <= MaxOptions \/ shape = FullShape
          /\ \E stdlib \in {"libc++", "libstdc++"} :
                Args = [opts |-> opts,
                        L |-> Prefix(UserLibDirs, shape.L),
                        u |-> Prefix(UndefinedSyms, shape.u),
                        stdlib |-> stdlib,
                        rtlib |-> <<>>,
                        init_array |-> <<>>]
          /\ Inputs = Prefix(InputNames, shape.inputs)
    /\ D \in [SysRoot : SysRoots, ResourceDir : {<<"/clang/lib/clang/11">>},
              CCCIsCXX : BOOLEAN, LTOMode : {"none", "full", "thin"}]
    /\ D.CCCIsCXX \/ Args.stdlib = "libc++"
    /\ \E pie \in BOOLEAN, dirs \in InstallChoices(KushFilePaths(D.SysRoot)) :
          TC = [FilePaths |-> KushFilePaths(D.SysRoot), PIEDefault |-> pie,
                StartFileDirs |-> dirs]
    /\ Jobs = <<>>
    /\ CC1Args = <<>>
    /\ Diags = <<>>
    /\ RtLib = "unset"
    /\ Called = {}
    /\ pc = "ready"

Next == ConstructJob

Spec == Init /\ [][Next]_vars

(***************************************************************************)
(* Kush::AddClangSystemIncludeArgs.  ToolChain::addSystemInclude appends   *)
(* the pair -internal-isystem <dir>.                                       *)
(***************************************************************************)
addSystemInclude(Path) == <<Lit("-internal-isystem"), Path>>

BuiltinIncludeArgs ==
    IF ~hasArg("nobuiltininc")
    THEN addSystemInclude(D.ResourceDir \o <<"include">>)
    ELSE <<>>


\* A build that adds the Local tier before the System tier.
SysRootIncludeArgs_LocalFirst ==
    IF D.SysRoot # <<>>
    THEN addSystemInclude(D.SysRoot \o <<"Local", "Includes">>)
         \o addSystemInclude(D.SysRoot \o <<"System", "Includes">>)
    ELSE <<>>

SysRootIncludeArgs ==
    IF D.SysRoot # <<>>
    THEN addSystemInclude(D.SysRoot \o <<"System", "Includes">>)
         \o addSystemInclude(D.SysRoot \o <<"Local", "Includes">>)
    ELSE <<>>

SystemIncludeArgs ==
    IF hasArg("nostdinc") THEN <<>>
    ELSE BuiltinIncludeArgs
         \o (IF hasArg("nostdlibinc") THEN <<>> ELSE SysRootIncludeArgs)

AddClangSystemIncludeArgs ==
    /\ pc = "ready"
    /\ "AddClangSystemIncludeArgs" \notin Called
    /\ CC1Args' = CC1Args \o SystemIncludeArgs
    /\ Called' = Called \cup {"AddClangSystemIncludeArgs"}
    /\ UNCHANGED <<Args, D, TC, Inputs, Jobs, Diags, RtLib, pc>>

(***************************************************************************)
(* Kush::AddClangCXXStdlibIncludeArgs: the libc++ headers of the sysroot,  *)
(* unless -nostdlibinc or -nostdinc++; llvm_unreachable for another        *)
(* standard library.                                                       *)
(***************************************************************************)
CXXStdlibIncludeArgs(Unreachable) ==
    IF hasArg("nostdlibinc") \/ hasArg("nostdincxx") THEN <<>>
    ELSE IF GetCXXStdlibType = "libc++" \/ Unreachable = "libc++"
    THEN addSystemInclude(D.SysRoot \o <<"System", "Includes", "c++", "v1">>)
    ELSE <<>>

CXXIncludesReachUnsupportedStdlib ==
    ~hasArg("nostdlibinc") /\ ~hasArg("nostdincxx") /\ CXXStdlibUnsupported

AddClangCXXStdlibIncludeArgs ==
    /\ pc = "ready"
    /\ "AddClangCXXStdlibIncludeArgs" \notin Called
    /\ \/ /\ CXXIncludesReachUnsupportedStdlib
          /\ pc' = "aborted"
          /\ UNCHANGED <<CC1Args, Called>>
       \/ \E Unreachable \in
                (IF CXXIncludesReachUnsupportedStdlib
                 THEN UnreachableOutcomes ELSE {"nothing"}) :
             /\ CC1Args' = CC1Args \o CXXStdlibIncludeArgs(Unreachable)
             /\ Called' = Called \cup {"AddClangCXXStdlibIncludeArgs"}
             /\ pc' = pc
    /\ UNCHANGED <<Args, D, TC, Inputs, Jobs, Diags, RtLib>>

(***************************************************************************)
(* Kush::addClangTargetOptions.  ArgList::hasFlag(Pos, Neg, Default) is    *)
(* decided by the last of the two options given, Default when neither is.  *)
(***************************************************************************)
hasFlagUseInitArray ==
    IF Args.init_array = <<>> THEN TRUE
    ELSE Args.init_array[Len(Args.init_array)] = "fuse_init_array"

TargetOptionArgs ==
    (IF ~hasFlagUseInitArray THEN <<Lit("-fno-use-init-array")>> ELSE <<>>)
    \o <<Lit("-ffunction-sections"), Lit("-fdata-sections")>>

addClangTargetOptions ==
    /\ pc = "ready"
    /\ "addClangTargetOptions" \notin Called
    /\ CC1Args' = CC1Args \o TargetOptionArgs
    /\ Called' = Called \cup {"addClangTargetOptions"}
    /\ UNCHANGED <<Args, D, TC, Inputs, Jobs, Diags, RtLib, pc>>

GetRuntimeLibType ==
    /\ pc = "ready"
    /\ RtLib = "unset"
    /\ Diags' = Diags \o GetRuntimeLibTypeDiags
    /\ RtLib' = GetRuntimeLibTypeResult
    /\ UNCHANGED <<Args, D, TC, Inputs, Jobs, CC1Args, Called, pc>>

ArgsOfCompile ==
    [opts : SUBSET IncludeOpts,
     L : {<<>>},
     u : {<<>>},
     stdlib : {"libc++", "libstdc++"},
     rtlib : SeqsUpTo(RtlibNames, MaxRtlibArgs),
     init_array : SeqsUpTo({"fuse_init_array", "fno_use_init_array"}, MaxInitArrayArgs)]

InitCompile ==
    /\ Args \in ArgsOfCompile
    /\ D \in [SysRoot : SysRoots, ResourceDir : ResourceDirs,
              CCCIsCXX : {TRUE}, LTOMode : {"none"}]
    /\ TC = [FilePaths |-> KushFilePaths(D.SysRoot), PIEDefault |-> FALSE,
             StartFileDirs |-> {}]
    /\ Inputs = <<>>
    /\ Jobs = <<>>
    /\ CC1Args = <<>>
    /\ Diags = <<>>
    /\ RtLib = "unset"
    /\ Called = {}
    /\ pc = "ready"

NextCompile ==
    \/ AddClangSystemIncludeArgs
    \/ AddClangCXXStdlibIncludeArgs
    \/ addClangTargetOptions
    \/ GetRuntimeLibType

SpecCompile == InitCompile /\ [][NextCompile]_vars

(***************************************************************************)
(* Vocabulary of the properties.                                           *)
(***************************************************************************)
Has(a, x) == \E i \in 1..Len(a) : a[i] = x

Positions(a, x) == {i \in 1..Len(a) : a[i] = x}

Count(a, x) == Cardinality(Positions(a, x))

MaxOf(T) == CHOOSE m \in T : \A n \in T : n <= m

IsSubsequence(sub, a) ==
    LET RECURSIVE match(_, _)
        match(i, j) ==
            IF i > Len(sub) THEN TRUE
            ELSE IF j > Len(a) THEN FALSE
            ELSE IF sub[i] = a[j] THEN match(i + 1, j + 1)
            ELSE match(i, j + 1)
    IN match(1, 1)

\* The argument lists of the commands added to the compilation.
LinkCommands == {Jobs[k].Arguments : k \in 1..Len(Jobs)}

\* The file name of an argument that is a path: its last piece.
BaseName(x) == x[Len(x)]

HasFile(a, name) == \E i \in 1..Len(a) : BaseName(a[i]) = name

StartupObjects == {"crt0.o", "crt0S.o", "crt0T.o", "crti.o"}

\* The names of the startup objects of a command, in their order.
StartupObjectsOf(a) ==
    LET objs == SelectSeq(a, LAMBDA x : BaseName(x) \in StartupObjects)
    IN [i \in 1..Len(objs) |-> BaseName(objs[i])]

\* The linking mode in effect just before position i: the last -Bstatic or
\* -Bdynamic before it, dynamic when there is none.
ModeBefore(a, i) ==
    LET T == {j \in 1..(i - 1) : a[j] \in {<<"-Bstatic">>, <<"-Bdynamic">>}}
    IN IF T = {} THEN "dynamic"
       ELSE IF a[MaxOf(T)] = <<"-Bstatic">> THEN "static" ELSE "dynamic"

\* C1: a command built for -static holds -Bstatic and neither the dynamic
\* linker path, -Bshareable nor -export-dynamic, whatever -rdynamic, -pie and
\* the other options are; unless -nostdlib or -nostartfiles is given it holds
\* crt0T.o and crti.o.
C1_StaticCommand ==
    \A a \in LinkCommands :
        "static" \in Args.opts =>
            /\ Has(a, <<"-Bstatic">>)
            /\ ~Has(a, <<"-dynamic-linker">>)
            /\ ~Has(a, <<"/sbin/ldyldo">>)
            /\ ~Has(a, <<"-Bshareable">>)
            /\ ~Has(a, <<"-export-dynamic">>)
            /\ ("nostdlib" \notin Args.opts /\ "nostartfiles" \notin Args.opts
                    => HasFile(a, "crt0T.o") /\ HasFile(a, "crti.o"))

C1_Witness ==
    /\ pc = "done"
    /\ Jobs # <<>>
    /\ {"static", "rdynamic", "pie", "shared"} \subseteq Args.opts
    /\ "nostdlib" \notin Args.opts
    /\ "nostartfiles" \notin Args.opts

\* C2 as stated: for -shared, IsPIE is false, -pie is not emitted and crt0S.o
\* is the startup object of the command.  A LinkSpec never has static and
\* shared both set, so the statement is read for -shared without -static.
C2_SharedSelectsCrt0S ==
    \A a \in LinkCommands :
        "shared" \in Args.opts /\ "static" \notin Args.opts =>
            /\ ~IsPIE
            /\ ~Has(a, <<"-pie">>)
            /\ StartupObjectsOf(a) = <<"crt0S.o">>

\* C2 amended: for -shared, IsPIE is false and -pie is not emitted; crt0S.o is
\* the startup object of the command when -static, -nostdlib and
\* -nostartfiles are all absent.
C2_SharedNotPIE ==
    \A a \in LinkCommands :
        "shared" \in Args.opts =>
            /\ ~IsPIE
            /\ ~Has(a, <<"-pie">>)
            /\ (Args.opts \cap {"static", "nostdlib", "nostartfiles"} = {}
                    => StartupObjectsOf(a) = <<"crt0S.o">>)

C2_Witness ==
    /\ pc = "done"
    /\ Jobs # <<>>
    /\ {"shared", "pie"} \subseteq Args.opts
    /\ TC.PIEDefault
    /\ Args.opts \cap {"static", "nostdlib", "nostartfiles"} = {}

\* C3: every command holds -znorelro once and -o once; -o is followed by the
\* output path and directly preceded by the last argument of the linking-mode
\* group: -Bstatic for -static, --enable-new-dtags otherwise.
C3_RelroAndOutputOnce ==
    \A a \in LinkCommands :
        /\ Count(a, <<"-znorelro">>) = 1
        /\ Count(a, <<"-o">>) = 1
        /\ \A i \in Positions(a, <<"-o">>) :
              /\ i > 1
              /\ i < Len(a)
              /\ a[i + 1] = <<OutputFile>>
              /\ a[i - 1] = (IF "static" \in Args.opts
                             THEN <<"-Bstatic">>
                             ELSE <<"--enable-new-dtags">>)

C3_Witness ==
    /\ pc = "done"
    /\ Jobs # <<>>
    /\ "s" \in Args.opts
    /\ "static" \notin Args.opts
    /\ D.SysRoot # <<>>

\* C4: with -nostdlib the command holds no startup object, no default library
\* (runtime support, -lc, -lopenlibm) and no C++ standard library linkage,
\* whatever the other options are.
C4_NostdlibLinksNothing ==
    \A a \in LinkCommands :
        "nostdlib" \in Args.opts =>
            \A i \in 1..Len(a) :
                /\ BaseName(a[i]) \notin StartupObjects
                /\ a[i] \notin {<<"libclang_rt.builtins.a">>, <<"-lgcc">>, <<"-lc">>,
                          <<"-lopenlibm">>, <<"--push-state">>, <<"--as-needed">>,
                          <<"-lc++abi">>, <<"-lc++">>, <<"-lunwind">>,
                          <<"--pop-state">>}

C4_Witness ==
    /\ pc = "done"
    /\ Jobs # <<>>
    /\ {"nostdlib", "static", "static_libstdcxx"} \subseteq Args.opts
    /\ "nolibc" \notin Args.opts
    /\ D.CCCIsCXX
    /\ Args.stdlib = "libc++"

\* The scenario of C5: only -pie given, C++, libc++, no LTO, sysroot /target.
C5_Scenario ==
    /\ Args.opts = {"pie"}
    /\ D.CCCIsCXX
    /\ Args.stdlib = "libc++"
    /\ D.LTOMode = "none"
    /\ D.SysRoot = <<"/target">>

\* crt0S.o, in the directory it is installed in.
C5_EntryObject ==
    IF TC.StartFileDirs = {} THEN <<"crt0S.o">>
    ELSE (CHOOSE d \in TC.StartFileDirs : TRUE) \o <<"crt0S.o">>

C5_Expected ==
    << <<"-znorelro">>, <<"--sysroot=", "/target">>, <<"-pie">>,
       <<"-o">>, <<OutputFile>>, C5_EntryObject,
       <<"-L", "/target", "System", "Libraries">>,
       <<"-L", "/target", "Local", "Libraries">> >>
    \o [i \in 1..Len(Inputs) |-> <<Inputs[i]>>]
    \o << <<"--push-state">>, <<"--as-needed">>, <<"-lc++abi">>, <<"-lc++">>,
          <<"-lunwind">>, <<"-lopenlibm">>, <<"--pop-state">>,
          <<"libclang_rt.builtins.a">>, <<"-lc">> >>

\* C5: in the scenario the command holds, in this order, -znorelro,
\* --sysroot=/target, -pie, -o and the output, crt0S.o, the System and Local
\* library paths of the sysroot, the inputs in their order, --push-state,
\* --as-needed, the C++ libraries, -lopenlibm, --pop-state, the runtime
\* support library, and -lc last.
C5_PieCxxScenario ==
    \A a \in LinkCommands :
        C5_Scenario =>
            /\ IsSubsequence(C5_Expected, a)
            /\ a[Len(a)] = <<"-lc">>

C5_Witness ==
    /\ pc = "done"
    /\ Jobs # <<>>
    /\ C5_Scenario
    /\ Len(Inputs) >= 2

\* The two library search paths of the sysroot, and the user's, as arguments.
SystemLibArg == <<"-L">> \o D.SysRoot \o <<"System", "Libraries">>

LocalLibArg == <<"-L">> \o D.SysRoot \o <<"Local", "Libraries">>

UserLibArgs == {<<"-L">> \o Args.L[k] : k \in 1..Len(Args.L)}

\* C7 as stated: under a sysroot the System library path comes before the
\* Local one, and both come before every user-supplied -L path.
C7_ToolchainPathsFirst ==
    \A a \in LinkCommands :
        D.SysRoot # <<>> =>
            /\ Count(a, SystemLibArg) = 1
            /\ Count(a, LocalLibArg) = 1
            /\ \A i \in Positions(a, SystemLibArg), j \in Positions(a, LocalLibArg) :
                  /\ i < j
                  /\ \A k \in 1..Len(a) : a[k] \in UserLibArgs => i < k /\ j < k

\* C7 amended: under a sysroot the System library path comes before the Local
\* one, and both come after every user-supplied -L path.
C7_ToolchainPathsLast ==
    \A a \in LinkCommands :
        D.SysRoot # <<>> =>
            /\ Count(a, SystemLibArg) = 1
            /\ Count(a, LocalLibArg) = 1
            /\ \A i \in Positions(a, SystemLibArg), j \in Positions(a, LocalLibArg) :
                  /\ i < j
                  /\ \A k \in 1..Len(a) : a[k] \in UserLibArgs => k < i /\ k < j

C7_Witness ==
    /\ pc = "done"
    /\ Jobs # <<>>
    /\ D.SysRoot # <<>>
    /\ Args.L # <<>>
    /\ \E a \in LinkCommands : \E k \in 1..Len(a) : a[k] \in UserLibArgs

\* The LTO option of the mode, anchored on the first input.
LTOArgOfFirstInput ==
    <<"-plugin-opt=", IF D.LTOMode = "thin" THEN "thinlto" ELSE "lto", Inputs[1]>>

\* Second half of C8: with LTO and an input, the LTO option anchored on the
\* first input comes once, after the search paths and before the inputs.
C8_LTOAnchored ==
    \A a \in LinkCommands :
        D.LTOMode # "none" /\ Inputs # <<>> =>
            /\ Count(a, LTOArgOfFirstInput) = 1
            /\ \A i \in Positions(a, LTOArgOfFirstInput) :
                  \A k \in 1..Len(a) :
                      /\ (a[k][1] \in {"-L", "-u"} => k < i)
                      /\ (a[k] \in {<<Args.u[n]>> : n \in 1..Len(Args.u)} => k < i)
                      /\ (a[k] \in {<<Inputs[n]>> : n \in 1..Len(Inputs)} => i < k)

\* First half of C8: with LTO and no input the job aborts and adds no command.
C8_AbortsWithoutInput ==
    D.LTOMode # "none" /\ Inputs = <<>> /\ pc # "ready" =>
        pc = "aborted" /\ Jobs = <<>>

\* C8: with LTO and no input ConstructJob aborts and never adds a command;
\* with LTO and an input the LTO options are anchored on the first input,
\* after the library search paths and before the inputs.
C8_LTOContract == C8_AbortsWithoutInput /\ C8_LTOAnchored

\* C10: in every command --push-state and --pop-state come equally often, at
\* most once, the push first and followed directly by --as-needed; -Bdynamic
\* comes only inside that scope, after a -Bstatic of the scope, and only for
\* -static-libstdc++ without -static; the linking mode before --pop-state is
\* the mode before --push-state.
C10_ScopeBalanced ==
    \A a \in LinkCommands :
        /\ Count(a, <<"--push-state">>) = Count(a, <<"--pop-state">>)
        /\ Count(a, <<"--push-state">>) <= 1
        /\ \A p \in Positions(a, <<"--push-state">>), q \in Positions(a, <<"--pop-state">>) :
              /\ p < q
              /\ a[p + 1] = <<"--as-needed">>
              /\ ModeBefore(a, q) = ModeBefore(a, p)
        /\ \A i \in Positions(a, <<"-Bdynamic">>) :
              /\ "static_libstdcxx" \in Args.opts
              /\ "static" \notin Args.opts
              /\ \E p \in Positions(a, <<"--push-state">>), q \in Positions(a, <<"--pop-state">>) :
                    /\ p < i
                    /\ i < q
                    /\ \E j \in (p + 1)..(i - 1) : a[j] = <<"-Bstatic">>

C10_Witness ==
    /\ pc = "done"
    /\ \E a \in LinkCommands :
          /\ Has(a, <<"--push-state">>)
          /\ Has(a, <<"-Bdynamic">>)
          /\ Has(a, <<"-lc++">>)

\* A step of AddClangSystemIncludeArgs, and the cc1 arguments it appends.
SystemIncludeStep ==
    /\ "AddClangSystemIncludeArgs" \notin Called
    /\ "AddClangSystemIncludeArgs" \in Called'

AppendedCC1Args == SubSeq(CC1Args', Len(CC1Args) + 1, Len(CC1Args'))

\* A list of system include directories as cc1 arguments.
AsSystemIncludes(dirs) ==
    [i \in 1..(2 * Len(dirs)) |->
        IF i % 2 = 1 THEN <<"-internal-isystem">> ELSE dirs[i \div 2]]

\* The reference list of C6.
C6_Reference ==
    (IF "nobuiltininc" \in Args.opts THEN <<>> ELSE <<D.ResourceDir \o <<"include">>>>)
    \o (IF "nostdlibinc" \in Args.opts \/ D.SysRoot = <<>>
        THEN <<>>
        ELSE <<D.SysRoot \o <<"System", "Includes">>,
               D.SysRoot \o <<"Local", "Includes">>>>)

\* C6 as stated: for every combination of the include options the system
\* include list AddClangSystemIncludeArgs produces is the reference list:
\* resourceDir/include first unless -nobuiltininc, then nothing for
\* -nostdlibinc or without a sysroot, else the System and then the Local
\* include directory of the sysroot.
C6_IncludesAreReference ==
    [][SystemIncludeStep =>
          /\ SubSeq(CC1Args', 1, Len(CC1Args)) = CC1Args
          /\ AppendedCC1Args = AsSystemIncludes(C6_Reference)]_vars

\* C6 amended: with -nostdinc AddClangSystemIncludeArgs produces no system
\* include directory; without it the list is the reference list.
C6_IncludesUnlessNostdinc ==
    [][SystemIncludeStep =>
          /\ SubSeq(CC1Args', 1, Len(CC1Args)) = CC1Args
          /\ AppendedCC1Args =
                (IF "nostdinc" \in Args.opts THEN <<>>
                 ELSE AsSystemIncludes(C6_Reference))]_vars

C6_Witness ==
    /\ Called = {"addClangTargetOptions", "AddClangSystemIncludeArgs"}
    /\ Args.opts = {}
    /\ D.SysRoot = <<"/target">>
    /\ D.ResourceDir # <<>>
    /\ Len(CC1Args) = 8
    /\ CC1Args[4] = D.ResourceDir \o <<"include">>
    /\ CC1Args[6] = <<"/target", "System", "Includes">>
    /\ CC1Args[8] = <<"/target", "Local", "Includes">>

\* C9: GetRuntimeLibType returns compiler-rt for every input; it reports
\* "invalid runtime library name" exactly when the -rtlib= in effect names
\* something other than compiler-rt; the report changes neither the result
\* nor the driver's progress.
C9_RuntimeLibType ==
    [][RtLib = "unset" /\ RtLib' # "unset" =>
          /\ RtLib' = "RLT_CompilerRT"
          /\ pc' = pc
          /\ Called' = Called
          /\ IF Args.rtlib # <<>> /\ Args.rtlib[Len(Args.rtlib)] # "compiler-rt"
             THEN /\ Len(Diags') = Len(Diags) + 1
                  /\ SubSeq(Diags', 1, Len(Diags)) = Diags
                  /\ Diags'[Len(Diags')].id = "err_drv_invalid_rtlib_name"
             ELSE Diags' = Diags]_vars

C9_Witness ==
    /\ RtLib = "RLT_CompilerRT"
    /\ pc = "ready"
    /\ Len(Args.rtlib) = 2
    /\ Args.rtlib[1] = "compiler-rt"
    /\ Args.rtlib[2] = "libgcc"
    /\ Len(Diags) = 1

====
